---- MODULE Spec2Model ----
\* A model of mediaplayerctl (src/src/mediaplayerctl.cpp): one run of main(),
\* from argument evaluation over discovery of the MPRIS players on the session
\* bus and aggregation of their playback states to the resolution of the
\* command into a plan and its dispatch.  The session bus is the environment:
\* every remote call and every handle creation picks its outcome
\* nondeterministically.
EXTENDS Integers, Sequences, FiniteSets, TLC

VARIABLES
    pc,         \* position of main(): the next statement group to run
    argv,       \* argv[1..argc-1], the command line without the program name
    method,     \* main()'s local `method`
    connection, \* main()'s local `connection`: "none" (not requested), "open", "null"
    players,    \* main()'s local `players` (PlayerSet)
    queried,    \* players the loop of getMediaPlayerStates has already visited
    states,     \* the PlayerStates map being built / main()'s local `states`
    actions,    \* main()'s local `actions` (PlayerActions)
    executed,   \* keys of `actions` the dispatch loop of main() has already visited
    exitCode,   \* exit status of the process, NoExit while it runs
    stdout,     \* lines written to std::cout
    stderr,     \* diagnostics written to std::cerr
    proxies,    \* Gio::DBus::Proxy::create_sync calls made so far, in order
    calls       \* call_sync calls made so far, in order

vars == <<pc, argv, method, connection, players, queried, states, actions,
          executed, exitCode, stdout, stderr, proxies, calls>>

---------------------------------------------------------------------------
\* Bounds of the environment.

\* longest reply of ListNames, in names
MaxNames == 3
\* longest reply of Get, in strings
MaxArity == 2

---------------------------------------------------------------------------
\* Values.

STOPPED == "STOPPED"
PAUSED  == "PAUSED"
PLAYING == "PLAYING"

NoExit == -1

EmptyMap == [p \in {} |-> ""]

\* a map keyed by the family name of the service instead of the service name
Put_familyKey(m, k, v) ==
    [q \in (DOMAIN m) \cup {"org.mpris.MediaPlayer2"} |->
        IF q = "org.mpris.MediaPlayer2" THEN v ELSE m[q]]

\* m with key k set to v (std::map::operator[] followed by an assignment)
Put(m, k, v) == [q \in (DOMAIN m) \cup {k} |-> IF q = k THEN v ELSE m[q]]

\* The service names the bus may list, and the characters of each.
BusNames ==
    { "org.mpris.MediaPlayer2.Zed", "org.mpris.MediaPlayer2.mpv",
      "org.mpris.MediaPlayer2.vlc", "org.mpris.MediaPlayer2" }

Bytes(name) ==
    CASE name = "org.mpris.MediaPlayer2.Zed" ->
           <<111, 114, 103, 46, 109, 112, 114, 105, 115, 46, 77, 101, 100, 105,
             97, 80, 108, 97, 121, 101, 114, 50, 46, 90, 101, 100>>
      [] name = "org.mpris.MediaPlayer2.mpv" ->
           <<111, 114, 103, 46, 109, 112, 114, 105, 115, 46, 77, 101, 100, 105,
             97, 80, 108, 97, 121, 101, 114, 50, 46, 109, 112, 118>>
      [] name = "org.mpris.MediaPlayer2.vlc" ->
           <<111, 114, 103, 46, 109, 112, 114, 105, 115, 46, 77, 101, 100, 105,
             97, 80, 108, 97, 121, 101, 114, 50, 46, 118, 108, 99>>
      [] name = "org.mpris.MediaPlayer2" ->
           <<111, 114, 103, 46, 109, 112, 114, 105, 115, 46, 77, 101, 100, 105,
             97, 80, 108, 97, 121, 101, 114, 50>>

\* "org.mpris.MediaPlayer2."
prefix ==
    <<111, 114, 103, 46, 109, 112, 114, 105, 115, 46, 77, 101, 100, 105, 97,
      80, 108, 97, 121, 101, 114, 50, 46>>

\* a comparison over the length of the shorter of the two strings
HasPrefix_shorterLength(name) ==
    LET s == Bytes(name)
        n == IF Len(s) < Len(prefix) THEN Len(s) ELSE Len(prefix)
    IN  SubSeq(s, 1, n) = SubSeq(prefix, 1, n)

\* i.compare(0, prefix.size(), prefix) == 0: the first prefix.size()
\* characters of i (fewer when i is shorter) are the prefix
HasPrefix(name) ==
    LET s == Bytes(name)
        n == IF Len(s) < Len(prefix) THEN Len(s) ELSE Len(prefix)
    IN  SubSeq(s, 1, n) = prefix

\* operator< of std::string: lexicographic on the characters; the first
\* position where the two differ decides, and a proper prefix is smaller
StrLess(a, b) ==
    LET x == Bytes(a)
        y == Bytes(b)
        n == IF Len(x) < Len(y) THEN Len(x) ELSE Len(y)
        diff == { i \in 1..n : x[i] # y[i] }
    IN  IF diff = {}
        THEN Len(x) < Len(y)
        ELSE LET k == CHOOSE i \in diff : \A j \in diff : i <= j
             IN  x[k] < y[k]

\* the last element of the set instead of the first
Begin_last(s) == CHOOSE p \in s : \A q \in s \ {p} : StrLess(q, p)

\* *s.begin() of a non-empty std::set<std::string>
Begin(s) == CHOOSE p \in s : \A q \in s \ {p} : StrLess(p, q)

\* The replies the environment may give.
SeqsUpTo(S, n) == UNION { [1..k -> S] : k \in 0..n }

ListNamesReplies == SeqsUpTo(BusNames, MaxNames)

StatusTexts == { "Playing", "Paused", "Stopped", "playing" }

\* a Get reply is a vector of strings; the code reads its size and element 0:
\* the empty vector, one status text, or the longest vector, with a
\* recognized first text
GetReplies ==
    { <<>> } \cup { <<t>> : t \in StatusTexts }
             \cup { [i \in 1..MaxArity |-> "Playing"] }

\* the command lines: no argument, each command, an unknown word (a command in
\* another case), two arguments
Commands == { "play", "pause", "playpause", "stop", "next", "prev" }

ArgVectors ==
    { <<>>, <<"play", "pause">> } \cup { <<c>> : c \in Commands \cup { "Play" } }

---------------------------------------------------------------------------
\* The pure functions.

\* findPlayer: the players of pstates whose state is one of sts
findPlayer(pstates, sts) ==
    { p \in DOMAIN pstates : \E i \in 1..Len(sts) : pstates[p] = sts[i] }

\* evalPlay without the preference of paused over stopped players
evalPlay_anyCandidate(sts) ==
    LET players_playing == findPlayer(sts, <<PLAYING>>)
        player == findPlayer(sts, <<PAUSED, STOPPED>>)
    IN  IF players_playing = {} /\ player # {}
        THEN Put(EmptyMap, Begin(player), "Play")
        ELSE EmptyMap

\* evalActions, method == "play": nothing while a player is playing, else the
\* first paused player, else the first stopped one
evalPlay(sts) ==
    LET players_playing == findPlayer(sts, <<PLAYING>>)
        paused == findPlayer(sts, <<PAUSED>>)
        player == IF paused = {} THEN findPlayer(sts, <<STOPPED>>) ELSE paused
    IN  IF players_playing = {} /\ player # {}
        THEN Put(EmptyMap, Begin(player), "Play")
        ELSE EmptyMap

\* evalPause that also pauses the paused players
evalPause_pausedToo(sts) ==
    LET players_playing == findPlayer(sts, <<PLAYING, PAUSED>>)
    IN  [player \in players_playing |-> "Pause"]

\* evalActions, method == "pause": every playing player
evalPause(sts) ==
    LET players_playing == findPlayer(sts, <<PLAYING>>)
    IN  [player \in players_playing |-> "Pause"]

\* evalPlayPause that pauses the first playing player only
evalPlayPause_firstOnly(sts) ==
    LET players_playing == findPlayer(sts, <<PLAYING>>)
        paused == findPlayer(sts, <<PAUSED>>)
        player == IF paused = {} THEN findPlayer(sts, <<STOPPED>>) ELSE paused
    IN  IF players_playing = {}
        THEN IF player # {}
             THEN Put(EmptyMap, Begin(player), "Play")
             ELSE EmptyMap
        ELSE Put(EmptyMap, Begin(players_playing), "Pause")

\* evalPlayPause that toggles every player: pauses the playing ones and plays
\* the paused ones
evalPlayPause_toggleEach(sts) ==
    LET players_playing == findPlayer(sts, <<PLAYING>>)
        paused == findPlayer(sts, <<PAUSED>>)
    IN  [p \in players_playing \cup paused |->
            IF p \in players_playing THEN "Pause" ELSE "Play"]

\* evalActions, method == "playpause"
evalPlayPause(sts) ==
    LET players_playing == findPlayer(sts, <<PLAYING>>)
        paused == findPlayer(sts, <<PAUSED>>)
        player == IF paused = {} THEN findPlayer(sts, <<STOPPED>>) ELSE paused
    IN  IF players_playing = {}
        THEN IF player # {}
             THEN Put(EmptyMap, Begin(player), "Play")
             ELSE EmptyMap
        ELSE [p \in players_playing |-> "Pause"]

\* evalStop that leaves the paused players alone
evalStop_playingOnly(sts) ==
    LET found == findPlayer(sts, <<PLAYING>>)
    IN  [player \in found |-> "Stop"]

\* evalActions, method == "stop": every playing or paused player
evalStop(sts) ==
    LET found == findPlayer(sts, <<PLAYING, PAUSED>>)
    IN  [player \in found |-> "Stop"]

\* evalNext that takes the last playing player of the set (*rbegin())
evalNext_lastPlaying(sts) ==
    LET players_playing == findPlayer(sts, <<PLAYING>>)
    IN  IF players_playing # {}
        THEN Put(EmptyMap, Begin_last(players_playing), "Next")
        ELSE EmptyMap

\* evalActions, method == "next": the first playing player
evalNext(sts) ==
    LET players_playing == findPlayer(sts, <<PLAYING>>)
    IN  IF players_playing # {}
        THEN Put(EmptyMap, Begin(players_playing), "Next")
        ELSE EmptyMap

\* evalPrev with the method name of the next branch
evalPrev_sendsNext(sts) ==
    LET players_playing == findPlayer(sts, <<PLAYING>>)
    IN  IF players_playing # {}
        THEN Put(EmptyMap, Begin(players_playing), "Next")
        ELSE EmptyMap

\* evalActions, method == "prev": the first playing player
evalPrev(sts) ==
    LET players_playing == findPlayer(sts, <<PLAYING>>)
    IN  IF players_playing # {}
        THEN Put(EmptyMap, Begin(players_playing), "Previous")
        ELSE EmptyMap

\* evalActions: the plan of a command (exit = NoExit), or exit(127) for a
\* string that is none of the commands
evalActions(m, sts) ==
    LET Plan(r) == [exit |-> NoExit, result |-> r]
    IN  IF m = "play" THEN Plan(evalPlay(sts))
        ELSE IF m = "pause" THEN Plan(evalPause(sts))
        ELSE IF m = "playpause" THEN Plan(evalPlayPause(sts))
        ELSE IF m = "stop" THEN Plan(evalStop(sts))
        ELSE IF m = "next" THEN Plan(evalNext(sts))
        ELSE IF m = "prev" THEN Plan(evalPrev(sts))
        ELSE [exit |-> 127, result |-> EmptyMap]

---------------------------------------------------------------------------
\* The run.

Init ==
    /\ pc = "eval_args"
    /\ argv \in ArgVectors
    /\ method = ""
    /\ connection = "none"
    /\ players = {}
    /\ queried = {}
    /\ states = EmptyMap
    /\ actions = EmptyMap
    /\ executed = {}
    /\ exitCode = NoExit
    /\ stdout = <<>>
    /\ stderr = <<>>
    /\ proxies = <<>>
    /\ calls = <<>>

\* exit(code) / return code from main
Exit(code) == pc' = "done" /\ exitCode' = code

\* main: eval_args(argc, argv)
EvalArgs ==
    /\ pc = "eval_args"
    /\ IF Len(argv) + 1 # 2
       THEN /\ stdout' = Append(stdout, "usage")
            /\ Exit(127)
            /\ UNCHANGED method
       ELSE /\ method' = argv[1]
            /\ pc' = "connect"
            /\ UNCHANGED <<stdout, exitCode>>
    /\ UNCHANGED <<argv, connection, players, queried, states, actions,
                   executed, stderr, proxies, calls>>

\* main: Gio::DBus::Connection::get_sync and the check of its result
GetConnection ==
    /\ pc = "connect"
    /\ \E ok \in BOOLEAN :
        IF ok
        THEN /\ connection' = "open"
             /\ pc' = "discover"
             /\ UNCHANGED <<exitCode, stderr>>
        ELSE /\ connection' = "null"
             /\ stderr' = Append(stderr, "The user's session bus is not available.")
             /\ Exit(1)
    /\ UNCHANGED <<argv, method, players, queried, states, actions, executed,
                   stdout, proxies, calls>>

ProxyMessage == "The proxy to the user's session bus was not successfully created."

\* the names of a ListNames reply that pass the filter
FilterNames(names) == { names[i] : i \in { j \in 1..Len(names) : HasPrefix(names[j]) } }

\* main without the check of the discovered set
CheckPlayers_unchecked(result) ==
    /\ pc' = "aggregate"
    /\ UNCHANGED <<stdout, exitCode>>

\* main: the check of the discovered set, "no player found." and return 0
CheckPlayers(result) ==
    IF result = {}
    THEN /\ stdout' = Append(stdout, "no player found.")
         /\ Exit(0)
    ELSE /\ pc' = "aggregate"
         /\ UNCHANGED <<stdout, exitCode>>

\* main: getMediaPlayerInstances(connection) and the check of its result
GetMediaPlayerInstances ==
    /\ pc = "discover"
    /\ \E created \in BOOLEAN :
        /\ proxies' = Append(proxies, [service |-> "org.freedesktop.DBus",
                                       interface |-> "org.freedesktop.DBus",
                                       created |-> created])
        /\ IF ~created
           THEN /\ stderr' = Append(stderr, ProxyMessage)
                /\ Exit(2)
                /\ UNCHANGED <<players, stdout, calls>>
           ELSE \E ok \in BOOLEAN :
                \E names \in IF ok THEN ListNamesReplies ELSE { <<>> } :
                LET result == IF ok THEN FilterNames(names) ELSE {}
                IN  /\ calls' = Append(calls, [op |-> "ListNames",
                                               target |-> "org.freedesktop.DBus",
                                               ok |-> ok, reply |-> names])
                    /\ players' = result
                    /\ stderr' = IF ok THEN stderr ELSE Append(stderr, "Got an error")
                    /\ CheckPlayers(result)
    /\ UNCHANGED <<argv, method, connection, queried, states, actions, executed>>

\* EvalResponse that tests state.size() < 1 instead of state.size() != 1
EvalResponse_firstOfMany(state) ==
    IF Len(state) < 1 THEN
        [entry |-> FALSE, value |-> "", message |-> "Unable to determine state"]
    ELSE IF state[1] = "Playing" THEN
        [entry |-> TRUE, value |-> PLAYING, message |-> ""]
    ELSE IF state[1] = "Paused" THEN
        [entry |-> TRUE, value |-> PAUSED, message |-> ""]
    ELSE IF state[1] = "Stopped" THEN
        [entry |-> TRUE, value |-> STOPPED, message |-> ""]
    ELSE
        [entry |-> FALSE, value |-> "", message |-> "Unknown state"]

\* EvalResponse that enters a player with an unknown status text with the
\* first value of the enumeration
EvalResponse_unknownIsStopped(state) ==
    IF Len(state) # 1 THEN
        [entry |-> FALSE, value |-> "", message |-> "Unable to determine state"]
    ELSE IF state[1] = "Playing" THEN
        [entry |-> TRUE, value |-> PLAYING, message |-> ""]
    ELSE IF state[1] = "Paused" THEN
        [entry |-> TRUE, value |-> PAUSED, message |-> ""]
    ELSE
        [entry |-> TRUE, value |-> STOPPED, message |-> ""]

\* getMediaPlayerStates: the evaluation of a Get reply; entry says whether the
\* player enters the map, value with which state, message what is logged
EvalResponse(state) ==
    IF Len(state) # 1 THEN
        [entry |-> FALSE, value |-> "", message |-> "Unable to determine state"]
    ELSE IF state[1] = "Playing" THEN
        [entry |-> TRUE, value |-> PLAYING, message |-> ""]
    ELSE IF state[1] = "Paused" THEN
        [entry |-> TRUE, value |-> PAUSED, message |-> ""]
    ELSE IF state[1] = "Stopped" THEN
        [entry |-> TRUE, value |-> STOPPED, message |-> ""]
    ELSE
        [entry |-> FALSE, value |-> "", message |-> "Unknown state"]

\* getMediaPlayerStates that repeats the Get call of a player until it succeeds
QueryPlayerState_retry ==
    /\ pc = "aggregate"
    /\ players \ queried # {}
    /\ LET player == Begin(players \ queried)
       IN  \E created \in BOOLEAN :
           /\ proxies' = Append(proxies, [service |-> player,
                                          interface |-> "org.freedesktop.DBus.Properties",
                                          created |-> created])
           /\ IF ~created
              THEN /\ stderr' = Append(stderr, ProxyMessage)
                   /\ Exit(3)
                   /\ UNCHANGED <<queried, states, calls>>
              ELSE \E ok \in BOOLEAN :
                   \E state \in IF ok THEN GetReplies ELSE { <<>> } :
                   /\ calls' = Append(calls, [op |-> "Get", target |-> player,
                                              ok |-> ok, reply |-> state])
                   /\ queried' = IF ok THEN queried \cup {player} ELSE queried
                   /\ pc' = IF ok /\ players \ queried = {player}
                            THEN "resolve" ELSE "aggregate"
                   /\ UNCHANGED exitCode
                   /\ IF ~ok THEN
                          /\ stderr' = Append(stderr, "Got an error")
                          /\ UNCHANGED states
                      ELSE LET r == EvalResponse(state)
                           IN  IF r.entry
                               THEN /\ states' = Put(states, player, r.value)
                                    /\ UNCHANGED stderr
                               ELSE /\ stderr' = Append(stderr, r.message)
                                    /\ UNCHANGED states
    /\ UNCHANGED <<argv, method, connection, players, actions, executed, stdout>>

\* getMediaPlayerStates: one iteration of the loop over the players; the
\* iteration after the last one returns the map to main
QueryPlayerState ==
    /\ pc = "aggregate"
    /\ players \ queried # {}
    /\ LET player == Begin(players \ queried)
       IN  \E created \in BOOLEAN :
           /\ proxies' = Append(proxies, [service |-> player,
                                          interface |-> "org.freedesktop.DBus.Properties",
                                          created |-> created])
           /\ IF ~created
              THEN /\ stderr' = Append(stderr, ProxyMessage)
                   /\ Exit(3)
                   /\ UNCHANGED <<queried, states, calls>>
              ELSE \E ok \in BOOLEAN :
                   \E state \in IF ok THEN GetReplies ELSE { <<>> } :
                   /\ calls' = Append(calls, [op |-> "Get", target |-> player,
                                              ok |-> ok, reply |-> state])
                   /\ queried' = queried \cup {player}
                   /\ pc' = IF players \ queried = {player} THEN "resolve" ELSE "aggregate"
                   /\ UNCHANGED exitCode
                   /\ IF ~ok THEN
                          /\ stderr' = Append(stderr, "Got an error")
                          /\ UNCHANGED states
                      ELSE LET r == EvalResponse(state)
                           IN  IF r.entry
                               THEN /\ states' = Put(states, player, r.value)
                                    /\ UNCHANGED stderr
                               ELSE /\ stderr' = Append(stderr, r.message)
                                    /\ UNCHANGED states
    /\ UNCHANGED <<argv, method, connection, players, actions, executed, stdout>>

\* main: actions = evalActions(method, states)
EvalActions ==
    /\ pc = "resolve"
    /\ LET r == evalActions(method, states)
       IN  IF r.exit # NoExit
           THEN /\ stderr' = Append(stderr, "Unknown method")
                /\ stdout' = Append(stdout, "usage")
                /\ Exit(r.exit)
                /\ UNCHANGED actions
           ELSE /\ actions' = r.result
                /\ pc' = "dispatch"
                /\ UNCHANGED <<stdout, stderr, exitCode>>
    /\ UNCHANGED <<argv, method, connection, players, queried, states,
                   executed, proxies, calls>>

\* the dispatch loop with the try block around the loop instead of around the
\* call: the first failed call ends the loop
ExecMediaPlayerMethod_stopsOnError ==
    /\ pc = "dispatch"
    /\ (DOMAIN actions) \ executed # {}
    /\ LET player == Begin((DOMAIN actions) \ executed)
           meth == actions[player]
       IN  IF meth = ""
           THEN /\ executed' = executed \cup {player}
                /\ UNCHANGED <<pc, exitCode, stderr, proxies, calls>>
           ELSE \E created \in BOOLEAN :
                /\ proxies' = Append(proxies, [service |-> player,
                                               interface |-> "org.mpris.MediaPlayer2.Player",
                                               created |-> created])
                /\ IF ~created
                   THEN /\ stderr' = Append(stderr, ProxyMessage)
                        /\ Exit(4)
                        /\ UNCHANGED <<executed, calls>>
                   ELSE \E ok \in BOOLEAN :
                        /\ calls' = Append(calls, [op |-> meth, target |-> player,
                                                   ok |-> ok, reply |-> <<>>])
                        /\ executed' = IF ok THEN executed \cup {player} ELSE DOMAIN actions
                        /\ stderr' = IF ok THEN stderr ELSE Append(stderr, "Got an error")
                        /\ UNCHANGED <<pc, exitCode>>
    /\ UNCHANGED <<argv, method, connection, players, queried, states, actions, stdout>>

\* the dispatch loop with the exit code of getMediaPlayerStates for a control
\* proxy that was not created
ExecMediaPlayerMethod_exit3 ==
    /\ pc = "dispatch"
    /\ (DOMAIN actions) \ executed # {}
    /\ LET player == Begin((DOMAIN actions) \ executed)
           meth == actions[player]
       IN  IF meth = ""
           THEN /\ executed' = executed \cup {player}
                /\ UNCHANGED <<pc, exitCode, stderr, proxies, calls>>
           ELSE \E created \in BOOLEAN :
                /\ proxies' = Append(proxies, [service |-> player,
                                               interface |-> "org.mpris.MediaPlayer2.Player",
                                               created |-> created])
                /\ IF ~created
                   THEN /\ stderr' = Append(stderr, ProxyMessage)
                        /\ Exit(3)
                        /\ UNCHANGED <<executed, calls>>
                   ELSE \E ok \in BOOLEAN :
                        /\ calls' = Append(calls, [op |-> meth, target |-> player,
                                                   ok |-> ok, reply |-> <<>>])
                        /\ executed' = executed \cup {player}
                        /\ stderr' = IF ok THEN stderr ELSE Append(stderr, "Got an error")
                        /\ UNCHANGED <<pc, exitCode>>
    /\ UNCHANGED <<argv, method, connection, players, queried, states, actions, stdout>>

\* the dispatch loop with the exit code of getMediaPlayerInstances for a
\* control proxy that was not created
ExecMediaPlayerMethod_exit2 ==
    /\ pc = "dispatch"
    /\ (DOMAIN actions) \ executed # {}
    /\ LET player == Begin((DOMAIN actions) \ executed)
           meth == actions[player]
       IN  IF meth = ""
           THEN /\ executed' = executed \cup {player}
                /\ UNCHANGED <<pc, exitCode, stderr, proxies, calls>>
           ELSE \E created \in BOOLEAN :
                /\ proxies' = Append(proxies, [service |-> player,
                                               interface |-> "org.mpris.MediaPlayer2.Player",
                                               created |-> created])
                /\ IF ~created
                   THEN /\ stderr' = Append(stderr, ProxyMessage)
                        /\ Exit(2)
                        /\ UNCHANGED <<executed, calls>>
                   ELSE \E ok \in BOOLEAN :
                        /\ calls' = Append(calls, [op |-> meth, target |-> player,
                                                   ok |-> ok, reply |-> <<>>])
                        /\ executed' = executed \cup {player}
                        /\ stderr' = IF ok THEN stderr ELSE Append(stderr, "Got an error")
                        /\ UNCHANGED <<pc, exitCode>>
    /\ UNCHANGED <<argv, method, connection, players, queried, states, actions, stdout>>

\* main: one iteration of the loop over the plan, execMediaPlayerMethod included
ExecMediaPlayerMethod ==
    /\ pc = "dispatch"
    /\ (DOMAIN actions) \ executed # {}
    /\ LET player == Begin((DOMAIN actions) \ executed)
           meth == actions[player]
       IN  IF meth = ""
           THEN /\ executed' = executed \cup {player}
                /\ UNCHANGED <<pc, exitCode, stderr, proxies, calls>>
           ELSE \E created \in BOOLEAN :
                /\ proxies' = Append(proxies, [service |-> player,
                                               interface |-> "org.mpris.MediaPlayer2.Player",
                                               created |-> created])
                /\ IF ~created
                   THEN /\ stderr' = Append(stderr, ProxyMessage)
                        /\ Exit(4)
                        /\ UNCHANGED <<executed, calls>>
                   ELSE \E ok \in BOOLEAN :
                        /\ calls' = Append(calls, [op |-> meth, target |-> player,
                                                   ok |-> ok, reply |-> <<>>])
                        /\ executed' = executed \cup {player}
                        /\ stderr' = IF ok THEN stderr ELSE Append(stderr, "Got an error")
                        /\ UNCHANGED <<pc, exitCode>>
    /\ UNCHANGED <<argv, method, connection, players, queried, states, actions, stdout>>

\* main: return 0 after the dispatch loop
MainReturn ==
    /\ pc = "dispatch"
    /\ (DOMAIN actions) \ executed = {}
    /\ Exit(0)
    /\ UNCHANGED <<argv, method, connection, players, queried, states, actions,
                   executed, stdout, stderr, proxies, calls>>

Next ==
    \/ EvalArgs
    \/ GetConnection
    \/ GetMediaPlayerInstances
    \/ QueryPlayerState
    \/ EvalActions
    \/ ExecMediaPlayerMethod
    \/ MainReturn

Spec == Init /\ [][Next]_vars

\* the run with its scheduling: the program is one thread of blocking calls,
\* each of which returns, so a step that can be taken is taken
FairSpec == Spec /\ WF_vars(Next)

\* the shape of the state
TypeOK ==
    /\ pc \in { "eval_args", "connect", "discover", "aggregate", "resolve",
                "dispatch", "done" }
    /\ exitCode \in { NoExit, 0, 1, 2, 3, 4, 127 }
    /\ players \subseteq BusNames
    /\ queried \subseteq players
    /\ DOMAIN states \subseteq players
    /\ executed \subseteq DOMAIN actions

---------------------------------------------------------------------------
\* Properties of the resolution (evalActions).  In a state with pc = "dispatch"
\* main has just stored evalActions(method, states) in actions.

\* the players of the StateMap that are in state s
InState(s) == { p \in DOMAIN states : states[p] = s }

\* C1: for the command pause the plan's entries are exactly the Playing
\* players, each with the method Pause (so the plan is empty when nobody plays)
C1_PauseTargetsPlaying ==
    (pc = "dispatch" /\ method = "pause")
        => actions = [p \in InState(PLAYING) |-> "Pause"]

C1_Witness ==
    /\ pc = "dispatch" /\ method = "pause"
    /\ Cardinality(InState(PLAYING)) = 2
    /\ InState(PAUSED) # {}
    /\ Cardinality(DOMAIN actions) = 2

\* C2: for the command stop the plan's entries are exactly the Playing and the
\* Paused players, each with the method Stop; a Stopped player and a player
\* without an entry in the StateMap are no keys of the plan
C2_StopTargetsPlayingAndPaused ==
    (pc = "dispatch" /\ method = "stop")
        => /\ actions = [p \in InState(PLAYING) \cup InState(PAUSED) |-> "Stop"]
           /\ \A p \in players :
                (p \notin DOMAIN states \/ states[p] = STOPPED) => p \notin DOMAIN actions

C2_Witness ==
    /\ pc = "dispatch" /\ method = "stop"
    /\ InState(PLAYING) # {} /\ InState(PAUSED) # {}
    /\ players \ DOMAIN states # {}
    /\ Cardinality(DOMAIN actions) = 2

\* C3: for the command play the plan has at most one entry; it is empty when a
\* player is Playing or when no player is Paused or Stopped; otherwise its one
\* entry has the method Play and its key is a Paused player if there is one
\* and a Stopped player if there is none
C3_PlayTargetsOneCandidate ==
    (pc = "dispatch" /\ method = "play")
        => /\ Cardinality(DOMAIN actions) <= 1
           /\ IF InState(PLAYING) # {} \/ InState(PAUSED) \cup InState(STOPPED) = {}
              THEN DOMAIN actions = {}
              ELSE \E p \in DOMAIN states :
                     /\ DOMAIN actions = {p}
                     /\ actions[p] = "Play"
                     /\ states[p] = IF InState(PAUSED) # {} THEN PAUSED ELSE STOPPED

\* a stopped player precedes the paused one in the order of the set
C3_Witness ==
    /\ pc = "dispatch" /\ method = "play"
    /\ InState(PLAYING) = {}
    /\ \E p \in InState(PAUSED), q \in InState(STOPPED) :
         StrLess(q, p) /\ DOMAIN actions = {p}

\* C4: for the command playpause the plan is the plan of pause when a player
\* is Playing and the plan of play when none is
C4_PlayPauseIsPauseOrPlay ==
    (pc = "dispatch" /\ method = "playpause")
        => actions = IF InState(PLAYING) # {}
                     THEN evalActions("pause", states).result
                     ELSE evalActions("play", states).result

C4_Witness ==
    /\ pc = "dispatch" /\ method = "playpause"
    /\ Cardinality(InState(PLAYING)) = 2
    /\ InState(PAUSED) # {}
    /\ \A p \in DOMAIN actions : actions[p] = "Pause"
    /\ DOMAIN actions = InState(PLAYING)

\* C5: for the command next the plan has exactly one entry, a Playing player
\* with the method Next, when a player is Playing, and none otherwise; for
\* prev the plan has the keys of the plan of next, with the method Previous
C5_NextPrevTargetOnePlaying ==
    /\ (pc = "dispatch" /\ method = "next")
         => IF InState(PLAYING) # {}
            THEN \E p \in InState(PLAYING) : actions = [q \in {p} |-> "Next"]
            ELSE actions = EmptyMap
    /\ (pc = "dispatch" /\ method = "prev")
         => /\ DOMAIN actions = DOMAIN evalActions("next", states).result
            /\ (InState(PLAYING) # {}) <=> (DOMAIN actions # {})
            /\ \A p \in DOMAIN actions : actions[p] = "Previous" /\ states[p] = PLAYING
            /\ Cardinality(DOMAIN actions) <= 1

C5_Witness ==
    /\ pc = "dispatch" /\ method = "prev"
    /\ Cardinality(InState(PLAYING)) = 2
    /\ \E p \in InState(PLAYING) : actions = [q \in {p} |-> "Previous"]

---------------------------------------------------------------------------
\* Properties of a run.

\* the command line has one argument and it is none of the six commands
UnknownCommand == Len(argv) = 1 /\ argv[1] \notin Commands

\* the indices of the Get calls issued to player p
GetCalls(p) == { i \in 1..Len(calls) : calls[i].op = "Get" /\ calls[i].target = p }

\* C6: a run whose command string is none of the six commands ends with exit
\* code 127, whatever the bus returns
C6_UnknownCommandExits127 ==
    (pc = "done" /\ UnknownCommand) => exitCode = 127

\* C7: a run that is a usage error (wrong argument count or unknown command)
\* never touches the bus: no connection, no proxy, no remote call
C7_UsageErrorTouchesNoBus ==
    (Len(argv) # 1 \/ UnknownCommand)
        => connection = "none" /\ proxies = <<>> /\ calls = <<>>

\* C8: a run whose ListNames call failed ends with an exit code other than 0
\* and has issued no call besides ListNames (stated for the runs of the six
\* commands, where no other exit stands in the way)
C8_ListNamesFailureIsFatal ==
    (/\ pc = "done" /\ method \in Commands
     /\ calls # <<>> /\ calls[1].op = "ListNames" /\ ~calls[1].ok)
        => exitCode # 0 /\ Len(calls) = 1

\* C9: once discovery has returned an empty set for a valid command, the run
\* has printed "no player found." and ended with exit code 0, and ListNames is
\* the only remote call it has issued
C9_NoPlayerFoundExits0 ==
    (method \in Commands /\ calls # <<>> /\ players = {})
        => /\ pc = "done" /\ exitCode = 0
           /\ stdout = <<"no player found.">>
           /\ \A i \in 1..Len(calls) : calls[i].op = "ListNames"

\* the bus listed names, none of them a player
C9_Witness ==
    /\ method \in Commands
    /\ calls # <<>> /\ calls[1].ok /\ Len(calls[1].reply) >= 2
    /\ players = {} /\ exitCode = 0

\* the recognized status texts and their states
StateOfText(t) ==
    CASE t = "Playing" -> PLAYING
      [] t = "Paused" -> PAUSED
      [] t = "Stopped" -> STOPPED

\* the Get call to player p succeeded with exactly one recognized status text
GoodReply(c) ==
    c.ok /\ Len(c.reply) = 1 /\ c.reply[1] \in { "Playing", "Paused", "Stopped" }

\* C10: when getMediaPlayerStates has returned, every discovered player has
\* been queried once, and the StateMap holds exactly the players whose Get
\* call succeeded with one recognized status text, each with that state
C10_StateMapIsTheGoodReplies ==
    pc \in { "resolve", "dispatch" }
        => /\ \A p \in players : Cardinality(GetCalls(p)) = 1
           /\ LET Reply(p) == calls[CHOOSE i \in GetCalls(p) : TRUE]
                  good == { p \in players : GoodReply(Reply(p)) }
              IN  states = [p \in good |-> StateOfText(Reply(p).reply[1])]

\* three players: the first one's reply is not usable, the second one's call
\* failed, the third one is entered
C10_Witness ==
    /\ pc = "resolve"
    /\ \E p, q, r \in players :
         /\ StrLess(p, q) /\ StrLess(q, r)
         /\ \E i \in GetCalls(p) : calls[i].ok /\ ~GoodReply(calls[i])
         /\ \E i \in GetCalls(q) : ~calls[i].ok
         /\ DOMAIN states = {r}

---------------------------------------------------------------------------
\* Properties of the dispatch and of the order of the remote calls.

\* a call of a method of the player-control interface
IsControlCall(c) == c.op \notin { "ListNames", "Get" }

\* the indices of the player-control calls issued to player p
ControlCalls(p) == { i \in 1..Len(calls) : IsControlCall(calls[i]) /\ calls[i].target = p }

\* C11: while the plan is dispatched, each entry the loop has visited has got
\* exactly one call, of its method, and no other player has got a call; a run
\* that returns 0 after the dispatch has visited every entry of the plan, so
\* the calls issued are the plan, whether or not an earlier call failed
C11_ControlCallsAreThePlan ==
    (pc = "dispatch" \/ (pc = "done" /\ exitCode = 0 /\ players # {}))
        => /\ pc = "done" => executed = DOMAIN actions
           /\ \A i \in 1..Len(calls) :
                IsControlCall(calls[i]) => calls[i].target \in executed
           /\ \A p \in executed :
                /\ Cardinality(ControlCalls(p)) = 1
                /\ \A i \in ControlCalls(p) : calls[i].op = actions[p]

\* two plan entries, the call to the first one failed, the second one was
\* called all the same, and a discovered player outside the plan
C11_Witness ==
    /\ pc = "done" /\ exitCode = 0
    /\ players \ DOMAIN actions # {}
    /\ \E p, q \in DOMAIN actions :
         /\ StrLess(p, q)
         /\ \E i \in ControlCalls(p) : ~calls[i].ok
         /\ ControlCalls(q) # {}

\* the stage of a remote call: discovery, aggregation, dispatch
Stage(c) == IF c.op = "ListNames" THEN 1 ELSE IF c.op = "Get" THEN 2 ELSE 3

\* main has got the StateMap from getMediaPlayerStates
ReachedResolution ==
    /\ players # {}
    /\ pc \in { "resolve", "dispatch" } \/ (pc = "done" /\ exitCode \in { 0, 4, 127 })

\* C12: the remote calls are issued in stage order: one ListNames call, and it
\* is the first call; then the Get calls, to discovered players only and in
\* ascending order of the player names, one for every discovered player once
\* the run has reached the resolution; then the player-control calls.  The
\* order is stated for each call and its successor, which gives it for all
\* pairs (the stages and the names are ordered transitively).
C12_CallsInStageOrder ==
    /\ \A i \in 1..Len(calls) : (calls[i].op = "ListNames") <=> (i = 1)
    /\ \A i \in 1..(Len(calls) - 1) :
         /\ Stage(calls[i]) <= Stage(calls[i + 1])
         /\ (calls[i].op = "Get" /\ calls[i + 1].op = "Get")
                => StrLess(calls[i].target, calls[i + 1].target)
    /\ \A i \in 1..Len(calls) : calls[i].op = "Get" => calls[i].target \in players
    /\ ReachedResolution => \A p \in players : GetCalls(p) # {}

\* the bus listed a later name before an earlier one; the run queried both
\* and issued a control call
C12_Witness ==
    /\ pc = "done" /\ exitCode = 0
    /\ Len(calls) >= 4
    /\ Len(calls[1].reply) >= 2
    /\ calls[1].reply[1] \in players /\ calls[1].reply[2] \in players
    /\ StrLess(calls[1].reply[2], calls[1].reply[1])
    /\ IsControlCall(calls[Len(calls)])

---------------------------------------------------------------------------
\* Properties of the fatal exits.

\* the proxy creations for the given interface that returned no proxy
FailedProxies(interface) ==
    { i \in 1..Len(proxies) : ~proxies[i].created /\ proxies[i].interface = interface }

\* C13: the exit code is 1 exactly when the connection was not obtained, 2
\* exactly when the registrar proxy was not created, 3 exactly when the
\* property proxy of a discovered player was not created and 4 exactly when
\* the control proxy of a player of the plan was not created; the failed
\* creation is the last thing the run does: no Get for that player or a later
\* one after exit 3, no control call for that entry or a later one after exit 4
C13_HandleFailuresAreFatal ==
    /\ (exitCode = 1) <=> (connection = "null")
    /\ (exitCode = 2) <=> (FailedProxies("org.freedesktop.DBus") # {})
    /\ (exitCode = 3) <=>
         (\E i \in FailedProxies("org.freedesktop.DBus.Properties") :
             proxies[i].service \in players)
    /\ (exitCode = 4) <=>
         (\E i \in FailedProxies("org.mpris.MediaPlayer2.Player") :
             proxies[i].service \in DOMAIN actions)
    /\ \A i \in 1..Len(proxies) :
         ~proxies[i].created => (i = Len(proxies) /\ pc = "done" /\ exitCode \in { 2, 3, 4 })
    /\ exitCode = 1 => (proxies = <<>> /\ calls = <<>>)
    /\ exitCode = 2 => calls = <<>>
    /\ exitCode = 3 =>
         \A i \in 1..Len(calls) :
            /\ ~IsControlCall(calls[i])
            /\ calls[i].op = "Get"
                 => StrLess(calls[i].target, proxies[Len(proxies)].service)
    /\ exitCode = 4 =>
         \A i \in 1..Len(calls) :
            IsControlCall(calls[i])
                 => StrLess(calls[i].target, proxies[Len(proxies)].service)

\* the control proxy of the second of three plan entries was not created: the
\* first entry has got its call, the third one has not
C13_Witness ==
    /\ pc = "done" /\ exitCode = 4
    /\ \E p, r \in DOMAIN actions :
         /\ StrLess(p, proxies[Len(proxies)].service)
         /\ StrLess(proxies[Len(proxies)].service, r)
         /\ ControlCalls(p) # {}
         /\ ControlCalls(r) = {}

---------------------------------------------------------------------------
\* Properties that relate the player set, the StateMap and the plan.

\* C14: in every state every key of the StateMap and every key of the plan is
\* a member of the player set that discovery returned
C14_KeysAreDiscoveredPlayers ==
    /\ DOMAIN states \subseteq players
    /\ DOMAIN actions \subseteq players

\* a plan with an entry, and a discovered player that is in neither map
C14_Witness ==
    /\ pc = "dispatch"
    /\ DOMAIN actions # {}
    /\ players \ DOMAIN states # {}

\* the players a single-target command chooses from: for play, and for
\* playpause while nobody plays, the Paused players or, without any, the
\* Stopped ones; for next and prev the Playing players
Candidates ==
    IF method \in { "next", "prev" } THEN InState(PLAYING)
    ELSE IF InState(PLAYING) # {} THEN {}
    ELSE IF InState(PAUSED) # {} THEN InState(PAUSED)
    ELSE InState(STOPPED)

SingleTarget ==
    \/ method \in { "play", "next", "prev" }
    \/ method = "playpause" /\ InState(PLAYING) = {}

\* C15: the plan of a single-target command is decided by the StateMap alone:
\* its one key is the candidate whose name is smallest in the order of
\* std::string, wherever the bus listed that name
C15_SmallestCandidateIsChosen ==
    (pc = "dispatch" /\ SingleTarget /\ Candidates # {})
        => \E p \in Candidates :
             /\ DOMAIN actions = {p}
             /\ \A q \in Candidates \ {p} : StrLess(p, q)

\* two playing players, the bus listed the one with the larger name first
C15_Witness ==
    /\ pc = "dispatch" /\ method = "next"
    /\ Cardinality(Candidates) >= 2
    /\ calls[1].reply[1] \in Candidates
    /\ calls[1].reply[1] \notin DOMAIN actions
    /\ StrLess("org.mpris.MediaPlayer2.Zed", "org.mpris.MediaPlayer2.mpv")
    /\ \E p \in DOMAIN actions : StrLess(p, calls[1].reply[1])

---------------------------------------------------------------------------
\* Properties of the discovery.

\* the name is at least as long as the prefix and agrees with it character by
\* character
BeginsWithPrefix(name) ==
    /\ Len(Bytes(name)) >= Len(prefix)
    /\ \A i \in 1..Len(prefix) : Bytes(name)[i] = prefix[i]

\* C16: when getMediaPlayerInstances returns after a successful ListNames call
\* (the call is the only one so far), the player set is exactly the set of the
\* listed names that begin with "org.mpris.MediaPlayer2."; the bare name
\* "org.mpris.MediaPlayer2" is never in the player set
C16_PlayersAreThePrefixedNames ==
    /\ (Len(calls) = 1 /\ calls[1].ok)
         => players = { n \in { calls[1].reply[i] : i \in 1..Len(calls[1].reply) } :
                          BeginsWithPrefix(n) }
    /\ "org.mpris.MediaPlayer2" \notin players

\* the bus listed a player twice and the bare name: one player is discovered
C16_Witness ==
    /\ Len(calls) = 1 /\ calls[1].ok
    /\ \E i, j, k \in 1..Len(calls[1].reply) :
         /\ i # j
         /\ calls[1].reply[i] = calls[1].reply[j]
         /\ calls[1].reply[k] = "org.mpris.MediaPlayer2"
         /\ players = { calls[1].reply[i] }

---------------------------------------------------------------------------
\* Properties of the plan as the dispatch sees it.

\* C17: every key of the plan is a key of the StateMap, and every player that
\* has got a player-control call is one whose Get call had succeeded with one
\* recognized status text
C17_OnlyQueriedPlayersAreCalled ==
    /\ DOMAIN actions \subseteq DOMAIN states
    /\ \A i \in 1..Len(calls) :
         IsControlCall(calls[i])
            => \E j \in GetCalls(calls[i].target) : GoodReply(calls[j])

\* the run has ended after a control call, and a discovered player whose
\* state query gave no state has got none
C17_Witness ==
    /\ pc = "done" /\ exitCode = 0
    /\ \E i \in 1..Len(calls) : IsControlCall(calls[i])
    /\ \E p \in players :
         /\ \E j \in GetCalls(p) : ~GoodReply(calls[j])
         /\ ControlCalls(p) = {}

\* the methods a command may put into its plan
MethodsOf(m) ==
    CASE m = "play" -> { "Play" }
      [] m = "pause" -> { "Pause" }
      [] m = "playpause" -> { "Play", "Pause" }
      [] m = "stop" -> { "Stop" }
      [] m = "next" -> { "Next" }
      [] m = "prev" -> { "Previous" }

\* C18: every entry of the plan has a non-empty method, one of the methods of
\* the command, and all entries have the same one; so the dispatch loop skips
\* no entry it visits, and all control calls of a run carry the same method
C18_OneMethodPerPlan ==
    /\ \A p \in DOMAIN actions :
         /\ actions[p] # ""
         /\ method \in Commands /\ actions[p] \in MethodsOf(method)
         /\ \A q \in DOMAIN actions : actions[q] = actions[p]
    /\ \A p \in executed : ControlCalls(p) # {}
    /\ \A i, j \in 1..Len(calls) :
         (IsControlCall(calls[i]) /\ IsControlCall(calls[j]))
            => (calls[i].op = calls[j].op /\ calls[i].op # "")

\* playpause with two playing players and a paused one: two Pause calls
C18_Witness ==
    /\ pc = "done" /\ exitCode = 0 /\ method = "playpause"
    /\ InState(PAUSED) # {}
    /\ Cardinality({ i \in 1..Len(calls) : calls[i].op = "Pause" }) = 2

\* C19: a run that ends with exit code 1, 2, 3 or 127 has issued no
\* player-control call; a run that has issued one ends with 0 or 4
C19_ControlCallsOnlyBeforeExit0Or4 ==
    /\ exitCode \in { 1, 2, 3, 127 }
         => \A i \in 1..Len(calls) : ~IsControlCall(calls[i])
    /\ (pc = "done" /\ \E i \in 1..Len(calls) : IsControlCall(calls[i]))
         => exitCode \in { 0, 4 }

\* an unknown command is refused after the states were collected, one of them
\* Playing, and no player has got a call
C19_Witness ==
    /\ pc = "done" /\ exitCode = 127
    /\ InState(PLAYING) # {}
    /\ \A p \in players : ControlCalls(p) = {}

---------------------------------------------------------------------------
\* Termination.

\* the exit codes of the program
ExitCodes == { 0, 1, 2, 3, 4, 127 }

\* at most one ListNames call, and per discovered player at most one Get call
\* and at most one player-control call; no call to anything else
CallsAreBounded ==
    /\ Cardinality({ i \in 1..Len(calls) : calls[i].op = "ListNames" }) <= 1
    /\ \A i \in 1..Len(calls) : calls[i].op # "ListNames" => calls[i].target \in players
    /\ \A p \in players :
         /\ Cardinality(GetCalls(p)) <= 1
         /\ Cardinality(ControlCalls(p)) <= 1

\* C20: when every remote call returns, the run ends with one of the exit
\* codes of the program, and at no point has it issued more than one ListNames
\* call, one Get call per discovered player and one player-control call per
\* discovered player
C20_RunTerminates ==
    /\ <>(pc = "done" /\ exitCode \in ExitCodes)
    /\ [](CallsAreBounded)

\* a run that has ended with 0 after calls of all three stages
C20_Witness ==
    /\ pc = "done" /\ exitCode = 0
    /\ Cardinality(players) >= 2
    /\ \A p \in players : Cardinality(GetCalls(p)) = 1
    /\ \E p \in players : Cardinality(ControlCalls(p)) = 1

====
